---- MODULE Spec2Model ----
(***************************************************************************)
(* Inventory consistency engine of the minimarket POS backend: sale        *)
(* creation, sale cancellation, purchase receipt, stock movements, stock   *)
(* adjustment and product update, over the tables products, sales,         *)
(* sale_items, stock_movements, purchases and purchase_items.              *)
(* Money is held in integer cents.                                         *)
(***************************************************************************)
EXTENDS Integers, Sequences, FiniteSets, TLC

\* ------------------------------------------------------------------ bounds
MaxQty == 2          \* largest line quantity / movement magnitude submitted
MaxLines == 2        \* most lines in one sale or purchase
Price == 2           \* the unit price / unit cost the lines carry (cents)
MaxAdjust == 1       \* discount_amount and tax_amount range over 0..MaxAdjust
MaxPaid == 3         \* amount_paid ranges over 1..MaxPaid
MaxSales == 1        \* createSale calls that succeed
MaxPurchases == 1    \* createPurchase calls that succeed
MaxManual == 1       \* createStockMovement / adjustStock calls that succeed
MaxUpdates == 1      \* updateProduct calls that succeed
MaxNow == 1          \* clock readings are 0..MaxNow
InitStock == 1       \* stock_quantity the products are created with

\* ------------------------------------------------------------ id universes
Users == {1}                 \* rows of the users table
UserIds == {1, 2}            \* user ids a caller may submit (2: no row)
Suppliers == {1}             \* rows of the suppliers table
SupplierIds == {1, 2}        \* supplier ids a caller may submit (2: no row)
Null == 0                    \* SQL NULL of an id column (serial ids start at 1)
NullText == "null"           \* SQL NULL of a text / enum column
Reasons == {"wrong item"}    \* cancellation reasons submitted

VARIABLES
  stock,          \* products.stock_quantity, per row of the products table
  active,         \* products.is_active, per product
  sales,          \* sales table, in commit order
  saleSeq,        \* last value the serial sales.id has handed out
  saleItems,      \* sale_items table
  ledger,         \* stock_movements table
  purchases,      \* purchases table
  purchaseSeq,    \* last value the serial purchases.id has handed out
  purchaseItems,  \* purchase_items table
  now,            \* Date.now() reading
  last,           \* the call that completed last: what it was given, its outcome
  hist,           \* per sale: stock before it, where its ledger rows start,
                  \* products other calls have written since
  manual,         \* the createStockMovement and adjustStock calls that have
                  \* succeeded, in order: the movement each recorded and, for
                  \* adjustStock, the newQuantity it was given
  updates,        \* successful updateProduct calls so far
  procs,          \* per concurrent request: the handler it runs and its locals
  rowlock         \* per products row: the open transaction that has updated it

dbvars == <<stock, active, sales, saleItems, ledger, purchases, purchaseItems>>
seqvars == <<saleSeq, purchaseSeq, now, hist, manual, updates>>
concvars == <<procs, rowlock>>
vars == <<stock, active, sales, saleItems, ledger, purchases, purchaseItems,
          saleSeq, purchaseSeq, now, last, hist, manual, updates, procs, rowlock>>

Procs == {1, 2}              \* concurrent requests
NoProc == 0                  \* owner of a row lock nobody holds

\* ------------------------------------------------------------------ inputs
Products == DOMAIN stock               \* ids of the rows of the products table
NoProduct == 9                         \* a product id no row carries
ProductIds == Products \cup {NoProduct} \* product ids a caller may submit
CartItems == [product_id : ProductIds, quantity : 1..MaxQty, unit_price : {Price}]
PurchaseItemInputs == [product_id : ProductIds, quantity : 1..MaxQty, unit_cost : {Price}]

SeqsUpTo(S, n) == UNION {[1..k -> S] : k \in 1..n}

\* ----------------------------------------------------------------- helpers
Max0(x) == IF x < 0 THEN 0 ELSE x

RECURSIVE SumSeq(_)
\* reduce((sum, x) => sum + x, 0)
SumSeq(s) == IF Len(s) = 0 THEN 0 ELSE Head(s) + SumSeq(Tail(s))

LinePrice(item) == item.quantity * item.unit_price
LineCost(item) == item.quantity * item.unit_cost

Subtotal(items) == SumSeq([i \in 1..Len(items) |-> LinePrice(items[i])])
\* variant: the discount added instead of subtracted
TotalAmountDiscountAdded(items, discount, tax) == Subtotal(items) + discount + tax
TotalAmount(items, discount, tax) == Subtotal(items) - discount + tax
\* variant: the operands of the subtraction swapped
ChangeAmountSwapped(items, discount, tax, paid) ==
  TotalAmount(items, discount, tax) - paid
ChangeAmount(items, discount, tax, paid) == paid - TotalAmount(items, discount, tax)

\* total quantity the lines of a call move for product p
QtyFor(items, p) ==
  SumSeq([i \in 1..Len(items) |->
            IF items[i].product_id = p THEN items[i].quantity ELSE 0])

ItemProducts(items) == {items[i].product_id : i \in 1..Len(items)}

\* every open sale notes that an outside call has written the stock of P
Touch(P) ==
  [i \in 1..Len(hist) |->
     IF sales[i].status = "completed"
     THEN [hist[i] EXCEPT !.touched = @ \cup P] ELSE hist[i]]

\* the record of a completed call: the error it threw ("none" when it
\* returned), the id it was given or has created, which of the
\* preconditions of the operation its input broke and, for a call that
\* returned, the lines (createSale, createPurchase) or the actor and the
\* reason (cancelSale) it was given
Done(op, err, id, broken) ==
  last' = [op |-> op, err |-> err, id |-> id, broken |-> broken, first |-> {},
           lines |-> <<>>, by |-> Null, reason |-> NullText]


\* -------------------------------------------------------------------- Init
\* a request slot that runs no handler
\* the CreateStockMovementInput of a request that has none
NoMove ==
  [product_id |-> Null, movement_type |-> "in", quantity |-> 0,
   ref |-> [type |-> NullText, id |-> Null], created_by |-> Null]

Idle ==
  [op |-> "none", pc |-> "idle", actor |-> Null, party |-> Null,
   money |-> [discount |-> 0, tax |-> 0, paid |-> 0],
   items |-> <<>>, i |-> 0, id |-> Null, read |-> 0, err |-> "none",
   move |-> NoMove, target |-> 0, reason |-> NullText]

InitWith(P) ==
  /\ stock = [p \in P |-> InitStock]
  /\ active = [p \in P |-> TRUE]
  /\ sales = <<>>
  /\ saleSeq = 0
  /\ saleItems = <<>>
  /\ ledger = <<>>
  /\ purchases = <<>>
  /\ purchaseSeq = 0
  /\ purchaseItems = <<>>
  /\ now = 0
  /\ last = [op |-> "init", err |-> "none", id |-> Null, broken |-> {},
             first |-> {}, lines |-> <<>>, by |-> Null, reason |-> NullText]
  /\ hist = <<>>
  /\ manual = <<>>
  /\ updates = 0
  /\ procs = [a \in Procs |-> Idle]
  /\ rowlock = [p \in P |-> NoProc]

Init == InitWith({1, 2})    \* a store with two products
InitOne == InitWith({1})    \* a store with one product

\* --------------------------------------------------------------- createSale
\* one pass of the loop "Verify products exist and have sufficient stock"
\* variant: the verification loop without its stock test
LineErrorNoStockTest(item) ==
  IF item.product_id \notin Products THEN "ProductNotFound"
  ELSE IF ~active[item.product_id] THEN "ProductInactive"
  ELSE "none"

\* variant: the verification loop without its is_active test
LineErrorNoActiveTest(item) ==
  IF item.product_id \notin Products THEN "ProductNotFound"
  ELSE IF stock[item.product_id] < item.quantity THEN "InsufficientStock"
  ELSE "none"

\* one pass of the verification loop
LineError(item) ==
  IF item.product_id \notin Products THEN "ProductNotFound"
  ELSE IF stock[item.product_id] < item.quantity THEN "InsufficientStock"
  ELSE IF ~active[item.product_id] THEN "ProductInactive"
  ELSE "none"

RECURSIVE ItemError(_, _)
\* the loop, run to its first throw
ItemError(items, i) ==
  IF i > Len(items) THEN "none"
  ELSE IF LineError(items[i]) # "none" THEN LineError(items[i])
  ELSE ItemError(items, i + 1)

\* variant: the cashier is looked up before the payment is tested
CreateSaleErrorCashierFirst(cashier, items, discount, tax, paid) ==
  IF cashier \notin Users THEN "CashierNotFound"
  ELSE IF paid < TotalAmount(items, discount, tax) THEN "InsufficientPayment"
  ELSE ItemError(items, 1)

\* the first precondition of createSale that throws, in the order of the code
CreateSaleError(cashier, items, discount, tax, paid) ==
  IF paid < TotalAmount(items, discount, tax) THEN "InsufficientPayment"
  ELSE IF cashier \notin Users THEN "CashierNotFound"
  ELSE ItemError(items, 1)

\* the preconditions of createSale that a call breaks
SaleViolations(cashier, items, discount, tax, paid) ==
  {v \in {"payment", "cashier", "product", "stock", "inactive"} :
     \/ v = "payment" /\ paid < TotalAmount(items, discount, tax)
     \/ v = "cashier" /\ cashier \notin Users
     \/ v = "product" /\ \E i \in 1..Len(items) : items[i].product_id \notin Products
     \/ v = "stock" /\ \E i \in 1..Len(items) :
                         /\ items[i].product_id \in Products
                         /\ stock[items[i].product_id] < items[i].quantity
     \/ v = "inactive" /\ \E i \in 1..Len(items) :
                         /\ items[i].product_id \in Products
                         /\ ~active[items[i].product_id]}

\* what is wrong with one line: its product has no row, is short of stock
\* for the line, or is inactive
LineViolations(item) ==
  {v \in {"product", "stock", "inactive"} :
     \/ v = "product" /\ item.product_id \notin Products
     \/ v = "stock" /\ item.product_id \in Products
                    /\ stock[item.product_id] < item.quantity
     \/ v = "inactive" /\ item.product_id \in Products
                       /\ ~active[item.product_id]}

\* what is wrong with the first line, in the order submitted, that has
\* anything wrong with it
FirstLineViolations(items) ==
  LET bad == {i \in 1..Len(items) : LineViolations(items[i]) # {}}
  IN IF bad = {} THEN {}
     ELSE LineViolations(items[CHOOSE i \in bad : \A j \in bad : i <= j])

\* the record of a completed createSale call
DoneSale(err, id, broken, first, lines) ==
  last' = [op |-> "createSale", err |-> err, id |-> id, broken |-> broken,
           first |-> first, lines |-> lines, by |-> Null, reason |-> NullText]

SaleRow(id, cashier, items, discount, tax, paid) ==
  [id |-> id, transaction_number |-> id, cashier_id |-> cashier,
   subtotal |-> Subtotal(items), discount_amount |-> discount,
   tax_amount |-> tax, total_amount |-> TotalAmount(items, discount, tax),
   amount_paid |-> paid,
   change_amount |-> ChangeAmount(items, discount, tax, paid),
   status |-> "completed", cancelled_by |-> Null, cancelled_at |-> NullText,
   cancellation_reason |-> NullText]

SaleItemRow(saleId, item) ==
  [sale_id |-> saleId, product_id |-> item.product_id,
   quantity |-> item.quantity, unit_price |-> item.unit_price,
   total_price |-> LinePrice(item)]

\* variant: the row stores the quantity unsigned
SaleMovementRowUnsigned(saleId, cashier, item) ==
  [product_id |-> item.product_id, movement_type |-> "out",
   quantity |-> item.quantity, reference_type |-> "sale",
   reference_id |-> saleId, created_by |-> cashier]

\* the row of "Create stock movement record"
SaleMovementRow(saleId, cashier, item) ==
  [product_id |-> item.product_id, movement_type |-> "out",
   quantity |-> -item.quantity, reference_type |-> "sale",
   reference_id |-> saleId, created_by |-> cashier]

\* stock_quantity after "stock_quantity - item.quantity" ran for every line
StockAfterSale(items) == [p \in Products |-> stock[p] - QtyFor(items, p)]

\* what is noted of a sale when it commits
NewHist == [pre |-> stock, at |-> Len(ledger), cat |-> 0, touched |-> {}]

CreateSale(cashier, items, discount, tax, paid) ==
  LET err == CreateSaleError(cashier, items, discount, tax, paid)
      id == saleSeq + 1
      broken == SaleViolations(cashier, items, discount, tax, paid)
  IN IF err # "none"
     THEN /\ DoneSale(err, Null, broken, FirstLineViolations(items), <<>>)
          /\ UNCHANGED <<dbvars, seqvars>>
     ELSE /\ Len(sales) < MaxSales
          /\ saleSeq' = id
          /\ sales' = Append(sales, SaleRow(id, cashier, items, discount, tax, paid))
          /\ saleItems' = saleItems \o
                 [i \in 1..Len(items) |-> SaleItemRow(id, items[i])]
          /\ stock' = StockAfterSale(items)
          /\ ledger' = ledger \o
                 [i \in 1..Len(items) |-> SaleMovementRow(id, cashier, items[i])]
          /\ hist' = Append(Touch(ItemProducts(items)), NewHist)
          /\ DoneSale("none", id, broken, FirstLineViolations(items), items)
          /\ UNCHANGED <<active, purchases, purchaseItems, purchaseSeq, now,
                         manual, updates>>

\* --------------------------------------------------------------- cancelSale
SaleExists(saleId) == \E i \in 1..Len(sales) : sales[i].id = saleId
SaleIdx(saleId) == CHOOSE i \in 1..Len(sales) : sales[i].id = saleId

\* variant: the status of the sale is not looked at
CancelSaleErrorNoStatusTest(saleId, by) ==
  IF by \notin Users THEN "CancellerNotFound"
  ELSE IF ~SaleExists(saleId) THEN "SaleNotFound"
  ELSE "none"

\* variant: the sale is looked up before the canceller
CancelSaleErrorSaleFirst(saleId, by) ==
  IF ~SaleExists(saleId) THEN "SaleNotFound"
  ELSE IF by \notin Users THEN "CancellerNotFound"
  ELSE IF sales[SaleIdx(saleId)].status # "completed" THEN "NotCompleted"
  ELSE "none"

\* the first check of cancelSale that throws, in the order of the code
CancelSaleError(saleId, by) ==
  IF by \notin Users THEN "CancellerNotFound"
  ELSE IF ~SaleExists(saleId) THEN "SaleNotFound"
  ELSE IF sales[SaleIdx(saleId)].status # "completed" THEN "NotCompleted"
  ELSE "none"

\* the rows of sale_items with sale_id = saleId, in table order
ItemsOfSale(saleId) == SelectSeq(saleItems, LAMBDA r : r.sale_id = saleId)

CancelMovementRow(saleId, by, item) ==
  [product_id |-> item.product_id, movement_type |-> "in",
   quantity |-> item.quantity, reference_type |-> "sale",
   reference_id |-> saleId, created_by |-> by]

\* variant: each line restored one unit short
StockAfterCancelShort(items) ==
  [p \in Products |-> stock[p] + Max0(QtyFor(items, p) - 1)]

\* the stock once every line of the cancelled sale has been added back
StockAfterCancel(items) == [p \in Products |-> stock[p] + QtyFor(items, p)]

\* variant: the sale is marked refunded
CancelledSaleRefunded(row, by, reason) ==
  [row EXCEPT !.status = "refunded", !.cancelled_by = by,
              !.cancelled_at = "set", !.cancellation_reason = reason]

\* variant: the rows of the sale are reversed in place, none is added
LedgerAfterCancelRewritten(saleId, by, items) ==
  [k \in 1..Len(ledger) |->
     IF ledger[k].reference_type = "sale" /\ ledger[k].reference_id = saleId
     THEN [ledger[k] EXCEPT !.movement_type = "in", !.quantity = -@]
     ELSE ledger[k]]

\* stock_movements once "Create reverse stock movement" ran for every line
LedgerAfterCancel(saleId, by, items) ==
  ledger \o [i \in 1..Len(items) |-> CancelMovementRow(saleId, by, items[i])]

\* variant: the reason is not stored
CancelledSaleNoReason(row, by, reason) ==
  [row EXCEPT !.status = "cancelled", !.cancelled_by = by,
              !.cancelled_at = "set"]

\* variant: the change is taken back to what was paid
CancelledSaleChangeReturned(row, by, reason) ==
  [row EXCEPT !.status = "cancelled", !.cancelled_by = by,
              !.cancelled_at = "set", !.cancellation_reason = reason,
              !.change_amount = row.amount_paid]

\* the sale row after "Update sale status"
CancelledSale(row, by, reason) ==
  [row EXCEPT !.status = "cancelled", !.cancelled_by = by,
              !.cancelled_at = "set", !.cancellation_reason = reason]

\* the preconditions of cancelSale that a call breaks
CancelViolations(saleId, by) ==
  {v \in {"canceller", "sale", "status"} :
     \/ v = "canceller" /\ by \notin Users
     \/ v = "sale" /\ ~SaleExists(saleId)
     \/ v = "status" /\ SaleExists(saleId)
                     /\ sales[SaleIdx(saleId)].status # "completed"}

\* the record of a cancelSale call that returned
DoneCancel(id, broken, by, reason) ==
  last' = [op |-> "cancelSale", err |-> "none", id |-> id, broken |-> broken,
           first |-> {}, lines |-> <<>>, by |-> by, reason |-> reason]

CancelSale(saleId, by, reason) ==
  LET err == CancelSaleError(saleId, by)
      items == ItemsOfSale(saleId)
      broken == CancelViolations(saleId, by)
  IN IF err # "none"
     THEN /\ Done("cancelSale", err, saleId, broken)
          /\ UNCHANGED <<dbvars, seqvars>>
     ELSE /\ stock' = StockAfterCancel(items)
          /\ ledger' = LedgerAfterCancel(saleId, by, items)
          /\ sales' = [sales EXCEPT ![SaleIdx(saleId)] = CancelledSale(@, by, reason)]
          /\ hist' = [i \in 1..Len(hist) |->
                        IF i = SaleIdx(saleId)
                        THEN [hist[i] EXCEPT !.cat = Len(ledger)]
                        ELSE IF sales[i].status = "completed"
                        THEN [hist[i] EXCEPT !.touched = @ \cup ItemProducts(items)]
                        ELSE hist[i]]
          /\ DoneCancel(saleId, broken, by, reason)
          /\ UNCHANGED <<active, saleItems, purchases, purchaseItems, saleSeq,
                         purchaseSeq, now, manual, updates>>


\* ------------------------------------------------------ createStockMovement
MovementTypes == {"in", "out", "adjustment"}
MovementRefs == {[type |-> NullText, id |-> Null], [type |-> "sale", id |-> 1]}
MovementInputs ==
  [product_id : ProductIds, movement_type : MovementTypes,
   quantity : (-1)..MaxQty, ref : MovementRefs, created_by : Users]

\* variant: no floor
NewStockQuantityNoFloor(current, type, quantity) ==
  IF type = "in" THEN current + quantity
  ELSE IF type = "out" THEN current - quantity
  ELSE current + quantity

\* "Calculate new stock quantity based on movement type", then the floor
NewStockQuantity(current, type, quantity) ==
  Max0(IF type = "in" THEN current + quantity
       ELSE IF type = "out" THEN current - quantity
       ELSE current + quantity)

\* variant: the row stores the quantity floored at 0
MovementRowFloored(input) ==
  [product_id |-> input.product_id, movement_type |-> input.movement_type,
   quantity |-> Max0(input.quantity), reference_type |-> input.ref.type,
   reference_id |-> input.ref.id, created_by |-> input.created_by]

\* the row of "Insert the stock movement record"
MovementRow(input) ==
  [product_id |-> input.product_id, movement_type |-> input.movement_type,
   quantity |-> input.quantity, reference_type |-> input.ref.type,
   reference_id |-> input.ref.id, created_by |-> input.created_by]

\* the precondition of createStockMovement and adjustStock that a call breaks
MovementViolations(productId) == {v \in {"product"} : productId \notin Products}

\* body of createStockMovement, shared with adjustStock which delegates to it
\* and hands it the newQuantity it was called with
RecordMovement(op, input, target) ==
  IF input.product_id \notin Products
  THEN /\ Done(op, "ProductNotFound", input.product_id,
               MovementViolations(input.product_id))
       /\ UNCHANGED <<dbvars, seqvars>>
  ELSE /\ Len(manual) < MaxManual
       /\ ledger' = Append(ledger, MovementRow(input))
       /\ stock' = [stock EXCEPT ![input.product_id] =
                      NewStockQuantity(@, input.movement_type, input.quantity)]
       /\ hist' = Touch({input.product_id})
       /\ manual' = Append(manual, [input |-> input, target |-> target])
       /\ Done(op, "none", input.product_id,
               MovementViolations(input.product_id))
       /\ UNCHANGED <<active, sales, saleItems, purchases, purchaseItems,
                      saleSeq, purchaseSeq, now, updates>>

CreateStockMovement(input) == RecordMovement("createStockMovement", input, Null)

\* -------------------------------------------------------------- adjustStock
\* variant: the movement carries newQuantity itself
AdjustmentInputAbsolute(productId, newQuantity, userId) ==
  [product_id |-> productId, movement_type |-> "adjustment",
   quantity |-> newQuantity,
   ref |-> [type |-> "adjustment", id |-> Null], created_by |-> userId]

\* "Create stock movement record with the adjustment"
AdjustmentInput(productId, newQuantity, userId) ==
  [product_id |-> productId, movement_type |-> "adjustment",
   quantity |-> newQuantity - stock[productId],
   ref |-> [type |-> "adjustment", id |-> Null], created_by |-> userId]

\* variant: a product that has no row is taken to have stock 0
AdjustStockNoLookup(productId, newQuantity, userId) ==
  IF productId \notin Products
  THEN /\ ledger' = Append(ledger,
                           MovementRow([product_id |-> productId,
                                        movement_type |-> "adjustment",
                                        quantity |-> newQuantity,
                                        ref |-> [type |-> "adjustment", id |-> Null],
                                        created_by |-> userId]))
       /\ Done("adjustStock", "none", productId, MovementViolations(productId))
       /\ UNCHANGED <<stock, active, sales, saleItems, purchases, purchaseItems,
                      seqvars>>
  ELSE RecordMovement("adjustStock",
                      AdjustmentInput(productId, newQuantity, userId), newQuantity)

AdjustStock(productId, newQuantity, userId) ==
  IF productId \notin Products
  THEN /\ Done("adjustStock", "ProductNotFound", productId,
               MovementViolations(productId))
       /\ UNCHANGED <<dbvars, seqvars>>
  ELSE RecordMovement("adjustStock",
                      AdjustmentInput(productId, newQuantity, userId), newQuantity)

\* ----------------------------------------------------------- createPurchase
RECURSIVE PurchaseItemError(_, _)
\* the loop "Verify all products exist"
PurchaseItemError(items, i) ==
  IF i > Len(items) THEN "none"
  ELSE IF items[i].product_id \notin Products THEN "ProductNotFound"
  ELSE PurchaseItemError(items, i + 1)

PurchaseNumbers == {purchases[i].purchase_number : i \in 1..Len(purchases)}

\* variant: the products of the lines are not verified
CreatePurchaseErrorNoProductTest(supplier, items) ==
  IF supplier \notin Suppliers THEN "SupplierNotFound"
  ELSE IF now \in PurchaseNumbers THEN "DuplicatePurchaseNumber"
  ELSE "none"

\* the first failure of createPurchase: its two checks, then the unique index
\* on purchase_number that the insert of the header runs into
CreatePurchaseError(supplier, items) ==
  IF supplier \notin Suppliers THEN "SupplierNotFound"
  ELSE IF PurchaseItemError(items, 1) # "none" THEN PurchaseItemError(items, 1)
  ELSE IF now \in PurchaseNumbers THEN "DuplicatePurchaseNumber"
  ELSE "none"

\* the serial id is drawn before the unique index rejects the row
SeqAfterPurchase(err) ==
  IF err \in {"none", "DuplicatePurchaseNumber"} THEN purchaseSeq + 1 ELSE purchaseSeq

PurchaseTotal(items) == SumSeq([i \in 1..Len(items) |-> LineCost(items[i])])

PurchaseRow(id, supplier, items, by) ==
  [id |-> id, supplier_id |-> supplier, purchase_number |-> now,
   total_amount |-> PurchaseTotal(items), status |-> "completed",
   created_by |-> by]

PurchaseItemRow(purchaseId, item) ==
  [purchase_id |-> purchaseId, product_id |-> item.product_id,
   quantity |-> item.quantity, unit_cost |-> item.unit_cost,
   total_cost |-> LineCost(item)]

PurchaseMovementRow(purchaseId, by, item) ==
  [product_id |-> item.product_id, movement_type |-> "in",
   quantity |-> item.quantity, reference_type |-> "purchase",
   reference_id |-> purchaseId, created_by |-> by]

\* variant: every line adds to the stock read before the first line
StockAfterPurchaseStale(items) ==
  [p \in Products |->
     LET mine == {i \in 1..Len(items) : items[i].product_id = p}
     IN IF mine = {} THEN stock[p]
        ELSE stock[p] + items[CHOOSE i \in mine : \A j \in mine : j <= i].quantity]

\* the stock once "Update product stock" ran for every line, one after another
StockAfterPurchase(items) == [p \in Products |-> stock[p] + QtyFor(items, p)]

\* the record of a completed createPurchase call
DonePurchase(err, id, broken, lines) ==
  last' = [op |-> "createPurchase", err |-> err, id |-> id, broken |-> broken,
           first |-> {}, lines |-> lines, by |-> Null, reason |-> NullText]

\* the preconditions of createPurchase that a call breaks
PurchaseViolations(supplier, items) ==
  {v \in {"supplier", "product"} :
     \/ v = "supplier" /\ supplier \notin Suppliers
     \/ v = "product" /\ \E i \in 1..Len(items) : items[i].product_id \notin Products}

CreatePurchase(supplier, items, by) ==
  LET err == CreatePurchaseError(supplier, items)
      id == purchaseSeq + 1
      broken == PurchaseViolations(supplier, items)
  IN IF err # "none"
     THEN /\ DonePurchase(err, Null, broken, <<>>)
          /\ purchaseSeq' = SeqAfterPurchase(err)
          /\ purchaseSeq' <= MaxPurchases + 1
          /\ UNCHANGED <<dbvars, saleSeq, now, hist, manual, updates>>
     ELSE /\ Len(purchases) < MaxPurchases
          /\ purchaseSeq' = SeqAfterPurchase(err)
          /\ purchases' = Append(purchases, PurchaseRow(id, supplier, items, by))
          /\ purchaseItems' = purchaseItems \o
                 [i \in 1..Len(items) |-> PurchaseItemRow(id, items[i])]
          /\ stock' = StockAfterPurchase(items)
          /\ ledger' = ledger \o
                 [i \in 1..Len(items) |-> PurchaseMovementRow(id, by, items[i])]
          /\ hist' = Touch(ItemProducts(items))
          /\ DonePurchase("none", id, broken, items)
          /\ UNCHANGED <<active, sales, saleItems, saleSeq, now, manual, updates>>

\* ------------------------------------------------------------ updateProduct
Unset == -1   \* an optional field the caller left undefined
StockUpdates == {Unset} \cup 0..MaxQty
ActiveUpdates == {"unset", "true", "false"}

UpdateProduct(id, newStock, newActive) ==
  IF id \notin Products
  THEN /\ Done("updateProduct", "ProductNotFound", id, {"product"})
       /\ UNCHANGED <<dbvars, seqvars>>
  ELSE /\ updates < MaxUpdates
       /\ stock' = IF newStock = Unset THEN stock
                   ELSE [stock EXCEPT ![id] = newStock]
       /\ active' = IF newActive = "unset" THEN active
                    ELSE [active EXCEPT ![id] = (newActive = "true")]
       /\ hist' = IF newStock = Unset THEN hist ELSE Touch({id})
       /\ updates' = updates + 1
       /\ Done("updateProduct", "none", id, {})
       /\ UNCHANGED <<sales, saleItems, ledger, purchases, purchaseItems,
                      saleSeq, purchaseSeq, now, manual>>

\* the clock moves on between two calls
Tick ==
  /\ UNCHANGED concvars
  /\ now < MaxNow
  /\ now' = now + 1
  /\ Done("tick", "none", Null, {})
  /\ UNCHANGED <<dbvars, saleSeq, purchaseSeq, hist, manual, updates>>

\* --------------------------------------------------------------------- Next
\* an amount_paid that covers every total the lines can reach
FullPay == Price * MaxQty * MaxLines + MaxAdjust

DoCreateSale ==
  /\ UNCHANGED concvars
  /\ \E cashier \in UserIds, items \in SeqsUpTo(CartItems, MaxLines),
        discount \in 0..MaxAdjust, tax \in 0..MaxAdjust, paid \in 1..MaxPaid :
          CreateSale(cashier, items, discount, tax, paid)

\* createSale calls whose money fields are fixed
DoCreateSalePaid ==
  /\ UNCHANGED concvars
  /\ \E cashier \in UserIds, items \in SeqsUpTo(CartItems, MaxLines) :
       CreateSale(cashier, items, 0, 0, FullPay)

DoCancelSale ==
  /\ UNCHANGED concvars
  /\ \E saleId \in 1..(MaxSales + 1), by \in UserIds, reason \in Reasons :
       CancelSale(saleId, by, reason)

DoCreateStockMovement ==
  /\ UNCHANGED concvars
  /\ \E input \in MovementInputs : CreateStockMovement(input)

DoAdjustStock ==
  /\ UNCHANGED concvars
  /\ \E productId \in ProductIds, newQuantity \in (-1)..MaxQty, userId \in Users :
       AdjustStock(productId, newQuantity, userId)

DoCreatePurchase ==
  /\ UNCHANGED concvars
  /\ \E supplier \in SupplierIds, items \in SeqsUpTo(PurchaseItemInputs, MaxLines),
        by \in Users :
          CreatePurchase(supplier, items, by)

DoUpdateProduct ==
  /\ UNCHANGED concvars
  /\ \E id \in ProductIds, newStock \in StockUpdates, newActive \in ActiveUpdates :
       UpdateProduct(id, newStock, newActive)

\* the sale engine: sales with every money input, cancellations, product edits
NextSale == DoCreateSale \/ DoCancelSale \/ DoUpdateProduct

SpecSale == InitOne /\ [][NextSale]_vars

\* the stock engine: sales, cancellations, movements and adjustments
NextStock ==
  \/ DoCreateSalePaid
  \/ DoCancelSale
  \/ DoCreateStockMovement
  \/ DoAdjustStock

SpecStock == Init /\ [][NextStock]_vars

\* the purchase engine, next to product edits and the clock
NextPurchase ==
  \/ DoCreatePurchase
  \/ DoUpdateProduct
  \/ Tick

SpecPurchase == Init /\ [][NextPurchase]_vars

\* cancellation_reason is any string, the empty one included
AnyReasons == Reasons \cup {""}

DoCancelSaleReason ==
  /\ UNCHANGED concvars
  /\ \E saleId \in 1..(MaxSales + 1), by \in UserIds, reason \in AnyReasons :
       CancelSale(saleId, by, reason)

\* sales with every money input and their cancellations for any reason
NextCancel == DoCreateSale \/ DoCancelSaleReason

SpecCancel == InitOne /\ [][NextCancel]_vars

\* createPurchase calls of one line from a known supplier
DoCreatePurchaseLine ==
  /\ UNCHANGED concvars
  /\ \E supplier \in Suppliers, items \in SeqsUpTo(PurchaseItemInputs, 1),
        by \in Users :
          CreatePurchase(supplier, items, by)

\* createStockMovement calls that quote no reference
DoCreateStockMovementPlain ==
  /\ UNCHANGED concvars
  /\ \E input \in MovementInputs :
       input.ref.type = NullText /\ CreateStockMovement(input)

\* everything that writes the ledger, on one product
NextLedger ==
  \/ DoCreateSalePaid
  \/ DoCancelSale
  \/ DoCreatePurchaseLine
  \/ DoCreateStockMovementPlain
  \/ DoAdjustStock

SpecLedger == InitOne /\ [][NextLedger]_vars

\* ============================================ concurrent requests ========
\* Each request runs one handler.  Every statement the handler awaits is one
\* step, so the steps of two requests interleave.  db.transaction runs at
\* PostgreSQL's READ COMMITTED: the rows an open transaction has written stay
\* with the request until its COMMIT, its UPDATE of a products row holds the
\* row's lock until the transaction ends, and a SELECT reads committed rows.

Set(a, rec) == procs' = [procs EXCEPT ![a] = rec]

\* the handler returns or throws
Finish(a, err, id) ==
  /\ Set(a, [procs[a] EXCEPT !.pc = "done", !.err = err, !.id = id])
  /\ Done(procs[a].op, err, id, {})

\* the row locks left once the transaction of request a has ended
Release(a) == [p \in Products |-> IF rowlock[p] = a THEN NoProc ELSE rowlock[p]]

\* ------------------------------------------------- createSale, step by step
\* the request arrives and db.transaction opens
SaleStart(a, cashier, items, discount, tax, paid) ==
  /\ procs[a].pc = "idle"
  /\ Set(a, [Idle EXCEPT !.op = "createSale", !.pc = "begin", !.actor = cashier,
                         !.items = items,
                         !.money = [discount |-> discount, tax |-> tax, paid |-> paid]])
  /\ UNCHANGED <<dbvars, seqvars, last, rowlock>>

\* totals, "Verify sufficient payment", "Verify cashier exists"
SaleBegin(a) ==
  LET r == procs[a]
      err == IF r.money.paid < TotalAmount(r.items, r.money.discount, r.money.tax)
             THEN "InsufficientPayment"
             ELSE IF r.actor \notin Users THEN "CashierNotFound" ELSE "none"
  IN /\ r.op = "createSale" /\ r.pc = "begin"
     /\ IF err # "none"
        THEN Finish(a, err, Null)
        ELSE Set(a, [r EXCEPT !.pc = "check", !.i = 1]) /\ UNCHANGED last
     /\ UNCHANGED <<dbvars, seqvars, rowlock>>

\* one pass of the verification loop: the SELECT of the line's product
SaleCheck(a) ==
  LET r == procs[a]
      err == LineError(r.items[r.i])
  IN /\ r.op = "createSale" /\ r.pc = "check"
     /\ IF err # "none"
        THEN Finish(a, err, Null)
        ELSE /\ Set(a, IF r.i = Len(r.items) THEN [r EXCEPT !.pc = "insert"]
                       ELSE [r EXCEPT !.i = r.i + 1])
             /\ UNCHANGED last
     /\ UNCHANGED <<dbvars, seqvars, rowlock>>

\* "Create sale record": the row takes the next serial id
SaleInsert(a) ==
  LET r == procs[a] IN
  /\ r.op = "createSale" /\ r.pc = "insert"
  /\ saleSeq' = saleSeq + 1
  /\ Set(a, [r EXCEPT !.pc = "line", !.i = 1, !.id = saleSeq + 1])
  /\ UNCHANGED <<dbvars, purchaseSeq, now, hist, manual, updates, last, rowlock>>

\* one pass of the second loop: the sale item, the UPDATE of the product's
\* stock, which waits while another transaction holds the row, and the
\* stock movement
SaleLine(a) ==
  LET r == procs[a]
      p == r.items[r.i].product_id
  IN /\ r.op = "createSale" /\ r.pc = "line"
     /\ rowlock[p] \in {NoProc, a}
     /\ rowlock' = [rowlock EXCEPT ![p] = a]
     /\ Set(a, IF r.i = Len(r.items) THEN [r EXCEPT !.pc = "commit"]
               ELSE [r EXCEPT !.i = r.i + 1])
     /\ UNCHANGED <<dbvars, seqvars, last>>

\* COMMIT: the rows of the transaction become visible, its locks go
SaleCommit(a) ==
  LET r == procs[a] IN
  /\ r.op = "createSale" /\ r.pc = "commit"
  /\ sales' = Append(sales, SaleRow(r.id, r.actor, r.items, r.money.discount,
                                    r.money.tax, r.money.paid))
  /\ saleItems' = saleItems \o
         [i \in 1..Len(r.items) |-> SaleItemRow(r.id, r.items[i])]
  /\ stock' = StockAfterSale(r.items)
  /\ ledger' = ledger \o
         [i \in 1..Len(r.items) |-> SaleMovementRow(r.id, r.actor, r.items[i])]
  /\ hist' = Append(Touch(ItemProducts(r.items)), NewHist)
  /\ rowlock' = Release(a)
  /\ Finish(a, "none", r.id)
  /\ UNCHANGED <<active, purchases, purchaseItems, saleSeq, purchaseSeq, now,
                 manual, updates>>

\* the request is at an UPDATE of a products row inside its transaction
AtUpdate(a) ==
  \/ procs[a].op = "createSale" /\ procs[a].pc = "line"
  \/ procs[a].op = "cancelSale" /\ procs[a].pc = "cline"

\* the products row that UPDATE writes
UpdateRow(a) == procs[a].items[procs[a].i].product_id

\* request a waits for a row that request b holds, and b for one that a holds
InDeadlock(a) ==
  /\ AtUpdate(a)
  /\ \E b \in Procs \ {a} :
        /\ AtUpdate(b)
        /\ rowlock[UpdateRow(a)] = b
        /\ rowlock[UpdateRow(b)] = a

\* variant: nothing detects the deadlock
SaleDeadlockUndetected(a) ==
  /\ FALSE
  /\ UNCHANGED vars

\* PostgreSQL's deadlock detector fails the UPDATE of one of the two
\* requests, the handler rethrows and the transaction rolls back
SaleDeadlock(a) ==
  LET r == procs[a] IN
  /\ r.op = "createSale" /\ r.pc = "line"
  /\ InDeadlock(a)
  /\ rowlock' = Release(a)
  /\ Finish(a, "DeadlockDetected", Null)
  /\ UNCHANGED <<dbvars, seqvars>>

SaleStep(a) ==
  \/ SaleBegin(a)
  \/ SaleCheck(a)
  \/ SaleInsert(a)
  \/ SaleLine(a)
  \/ SaleDeadlock(a)
  \/ SaleCommit(a)

\* ------------------------------------------------- cancelSale, step by step
\* the request arrives and db.transaction opens
CancelStart(a, saleId, by, reason) ==
  /\ procs[a].pc = "idle"
  /\ Set(a, [Idle EXCEPT !.op = "cancelSale", !.pc = "canceller", !.id = saleId,
                         !.actor = by, !.reason = reason])
  /\ UNCHANGED <<dbvars, seqvars, last, rowlock>>

\* "Verify canceller exists"
CancelCanceller(a) ==
  LET r == procs[a] IN
  /\ r.op = "cancelSale" /\ r.pc = "canceller"
  /\ IF r.actor \notin Users
     THEN Finish(a, "CancellerNotFound", r.id)
     ELSE Set(a, [r EXCEPT !.pc = "sale"]) /\ UNCHANGED last
  /\ UNCHANGED <<dbvars, seqvars, rowlock>>

\* "Get existing sale": a plain SELECT, which reads the committed row and
\* locks nothing, then the test of its status
CancelSelect(a) ==
  LET r == procs[a] IN
  /\ r.op = "cancelSale" /\ r.pc = "sale"
  /\ IF ~SaleExists(r.id)
     THEN Finish(a, "SaleNotFound", r.id)
     ELSE IF sales[SaleIdx(r.id)].status # "completed"
     THEN Finish(a, "NotCompleted", r.id)
     ELSE Set(a, [r EXCEPT !.pc = "citems"]) /\ UNCHANGED last
  /\ UNCHANGED <<dbvars, seqvars, rowlock>>

\* "Get sale items to restore stock"
CancelItems(a) ==
  LET r == procs[a] IN
  /\ r.op = "cancelSale" /\ r.pc = "citems"
  /\ Set(a, [r EXCEPT !.pc = "cline", !.i = 1, !.items = ItemsOfSale(r.id)])
  /\ UNCHANGED <<dbvars, seqvars, last, rowlock>>

\* one pass of "Restore stock for each item": the UPDATE of the product's
\* stock, which waits while another transaction holds the row, and the
\* reverse stock movement
CancelLine(a) ==
  LET r == procs[a]
      p == r.items[r.i].product_id
  IN /\ r.op = "cancelSale" /\ r.pc = "cline"
     /\ rowlock[p] \in {NoProc, a}
     /\ rowlock' = [rowlock EXCEPT ![p] = a]
     /\ Set(a, IF r.i = Len(r.items) THEN [r EXCEPT !.pc = "ccommit"]
               ELSE [r EXCEPT !.i = r.i + 1])
     /\ UNCHANGED <<dbvars, seqvars, last>>

\* "Update sale status", whose WHERE names the id alone, and COMMIT: the
\* writes of the transaction become visible, its locks go.  The UPDATE of the
\* sales row waits for no one: the request holds the row of every product of
\* the sale, which another cancellation of the sale has to take first
CancelCommit(a) ==
  LET r == procs[a] IN
  /\ r.op = "cancelSale" /\ r.pc = "ccommit"
  /\ stock' = StockAfterCancel(r.items)
  /\ ledger' = LedgerAfterCancel(r.id, r.actor, r.items)
  /\ sales' = [sales EXCEPT ![SaleIdx(r.id)] = CancelledSale(@, r.actor, r.reason)]
  /\ hist' = [i \in 1..Len(hist) |->
                IF i = SaleIdx(r.id)
                THEN [hist[i] EXCEPT !.cat = Len(ledger)]
                ELSE IF sales[i].status = "completed"
                THEN [hist[i] EXCEPT !.touched = @ \cup ItemProducts(r.items)]
                ELSE hist[i]]
  /\ rowlock' = Release(a)
  /\ Finish(a, "none", r.id)
  /\ UNCHANGED <<active, saleItems, purchases, purchaseItems, saleSeq,
                 purchaseSeq, now, manual, updates>>

\* the deadlock detector fails the UPDATE of a cancellation
CancelDeadlock(a) ==
  LET r == procs[a] IN
  /\ r.op = "cancelSale" /\ r.pc = "cline"
  /\ InDeadlock(a)
  /\ rowlock' = Release(a)
  /\ Finish(a, "DeadlockDetected", r.id)
  /\ UNCHANGED <<dbvars, seqvars>>

\* the statements of cancelSale
CancelStep(a) ==
  \/ CancelCanceller(a)
  \/ CancelSelect(a)
  \/ CancelItems(a)
  \/ CancelLine(a)
  \/ CancelCommit(a)

\* --------------------------------------------- createPurchase, step by step
\* the request arrives; the handler opens no transaction
PurchaseStart(a, supplier, items, by) ==
  /\ procs[a].pc = "idle"
  /\ Set(a, [Idle EXCEPT !.op = "createPurchase", !.pc = "supplier",
                         !.party = supplier, !.items = items, !.actor = by])
  /\ UNCHANGED <<dbvars, seqvars, last, rowlock>>

\* "Verify supplier exists"
PurchaseSupplier(a) ==
  LET r == procs[a] IN
  /\ r.op = "createPurchase" /\ r.pc = "supplier"
  /\ IF r.party \notin Suppliers
     THEN Finish(a, "SupplierNotFound", Null)
     ELSE Set(a, [r EXCEPT !.pc = "verify", !.i = 1]) /\ UNCHANGED last
  /\ UNCHANGED <<dbvars, seqvars, rowlock>>

\* one pass of "Verify all products exist"
PurchaseVerify(a) ==
  LET r == procs[a] IN
  /\ r.op = "createPurchase" /\ r.pc = "verify"
  /\ IF r.items[r.i].product_id \notin Products
     THEN Finish(a, "ProductNotFound", Null)
     ELSE /\ Set(a, IF r.i = Len(r.items) THEN [r EXCEPT !.pc = "header"]
                    ELSE [r EXCEPT !.i = r.i + 1])
          /\ UNCHANGED last
  /\ UNCHANGED <<dbvars, seqvars, rowlock>>

\* total, purchase number from the clock, "Create purchase record"
PurchaseHeader(a) ==
  LET r == procs[a]
      id == purchaseSeq + 1
  IN /\ r.op = "createPurchase" /\ r.pc = "header"
     /\ purchaseSeq' = id
     /\ IF now \in PurchaseNumbers
        THEN /\ Finish(a, "DuplicatePurchaseNumber", Null)
             /\ UNCHANGED purchases
        ELSE /\ purchases' = Append(purchases, PurchaseRow(id, r.party, r.items, r.actor))
             /\ Set(a, [r EXCEPT !.pc = "items", !.id = id])
             /\ UNCHANGED last
     /\ UNCHANGED <<stock, active, sales, saleItems, ledger, purchaseItems,
                    saleSeq, now, hist, manual, updates, rowlock>>

\* "Create purchase items": one INSERT of all the lines
PurchaseItems(a) ==
  LET r == procs[a] IN
  /\ r.op = "createPurchase" /\ r.pc = "items"
  /\ purchaseItems' = purchaseItems \o
         [i \in 1..Len(r.items) |-> PurchaseItemRow(r.id, r.items[i])]
  /\ Set(a, [r EXCEPT !.pc = "read", !.i = 1])
  /\ UNCHANGED <<stock, active, sales, saleItems, ledger, purchases, seqvars,
                 last, rowlock>>

\* the SELECT of the line's product
PurchaseRead(a) ==
  LET r == procs[a] IN
  /\ r.op = "createPurchase" /\ r.pc = "read"
  /\ Set(a, [r EXCEPT !.pc = "write", !.read = stock[r.items[r.i].product_id]])
  /\ UNCHANGED <<dbvars, seqvars, last, rowlock>>

\* the UPDATE that stores the stock read plus the line's quantity
PurchaseWrite(a) ==
  LET r == procs[a]
      p == r.items[r.i].product_id
  IN /\ r.op = "createPurchase" /\ r.pc = "write"
     /\ rowlock[p] = NoProc
     /\ stock' = [stock EXCEPT ![p] = r.read + r.items[r.i].quantity]
     /\ hist' = Touch({p})
     /\ Set(a, [r EXCEPT !.pc = "ledger"])
     /\ UNCHANGED <<active, sales, saleItems, ledger, purchases, purchaseItems,
                    saleSeq, purchaseSeq, now, manual, updates, last, rowlock>>

\* "Create stock movement record" of the line
PurchaseLedger(a) ==
  LET r == procs[a] IN
  /\ r.op = "createPurchase" /\ r.pc = "ledger"
  /\ ledger' = Append(ledger, PurchaseMovementRow(r.id, r.actor, r.items[r.i]))
  /\ IF r.i = Len(r.items)
     THEN Finish(a, "none", r.id)
     ELSE Set(a, [r EXCEPT !.pc = "read", !.i = r.i + 1]) /\ UNCHANGED last
  /\ UNCHANGED <<stock, active, sales, saleItems, purchases, purchaseItems,
                 seqvars, rowlock>>

PurchaseStep(a) ==
  \/ PurchaseSupplier(a)
  \/ PurchaseVerify(a)
  \/ PurchaseHeader(a)
  \/ PurchaseItems(a)
  \/ PurchaseRead(a)
  \/ PurchaseWrite(a)
  \/ PurchaseLedger(a)

\* the clock moves on while requests run
ClockTick ==
  /\ now < MaxNow
  /\ now' = now + 1
  /\ UNCHANGED <<dbvars, saleSeq, purchaseSeq, hist, manual, updates, last,
                 procs, rowlock>>

\* two sale requests in flight
StartSale ==
  \E a \in Procs, cashier \in Users, items \in SeqsUpTo(CartItems, MaxLines) :
     SaleStart(a, cashier, items, 0, 0, FullPay)

RunSale == \E a \in Procs : SaleStep(a)

NextConcSale == StartSale \/ RunSale

SpecConcSale == Init /\ [][NextConcSale]_vars

\* two purchase requests in flight
StartPurchase ==
  \E a \in Procs, supplier \in Suppliers,
     items \in SeqsUpTo(PurchaseItemInputs, MaxLines), by \in Users :
       PurchaseStart(a, supplier, items, by)

RunPurchase == \E a \in Procs : PurchaseStep(a)

NextConcPurchase == StartPurchase \/ RunPurchase \/ ClockTick

SpecConcPurchase == InitOne /\ [][NextConcPurchase]_vars

\* two cancellation requests in flight, of sales made before them; they take
\* the rows of a sale in the same order, so none waits for the other in a cycle
StartCancel ==
  \E a \in Procs, saleId \in 1..(MaxSales + 1), by \in UserIds, reason \in Reasons :
     CancelStart(a, saleId, by, reason)

RunCancel == \E a \in Procs : CancelStep(a)

NextConcCancel == DoCreateSalePaid \/ StartCancel \/ RunCancel

SpecConcCancel == InitOne /\ [][NextConcCancel]_vars

\* ------------------------------------- sales and cancellations in flight
\* no transaction is in the middle of its writes
Quiet == \A p \in Products : rowlock[p] = NoProc

\* lines of one unit each on products that exist
UnitItems == [product_id : Products, quantity : {1}, unit_price : {Price}]

\* a createSale call of MaxLines lines on different products that runs
\* from its first statement to its COMMIT while no other transaction holds a
\* row
DoCreateSaleUnit ==
  /\ Quiet
  /\ UNCHANGED concvars
  /\ \E cashier \in Users, items \in [1..MaxLines -> UnitItems] :
       /\ \A i, j \in 1..MaxLines : i # j => items[i].product_id # items[j].product_id
       /\ CreateSale(cashier, items, 0, 0, FullPay)

\* a cancelSale call that runs likewise
DoCancelSaleQuiet ==
  /\ Quiet
  /\ UNCHANGED concvars
  /\ \E saleId \in 1..MaxSales, by \in Users, reason \in Reasons :
       CancelSale(saleId, by, reason)

StartSaleUnit ==
  \E a \in Procs, cashier \in Users, items \in SeqsUpTo(UnitItems, MaxLines) :
     SaleStart(a, cashier, items, 0, 0, FullPay)

StartCancelKnown ==
  \E a \in Procs, saleId \in 1..MaxSales, by \in Users, reason \in Reasons :
     CancelStart(a, saleId, by, reason)

AbortCancel == \E a \in Procs : CancelDeadlock(a)

NextLive ==
  \/ DoCreateSaleUnit
  \/ DoCancelSaleQuiet
  \/ StartSaleUnit
  \/ StartCancelKnown
  \/ RunSale
  \/ RunCancel
  \/ AbortCancel

\* a request that has arrived runs on: the event loop resumes a handler
\* whenever the statement it awaits has returned, and PostgreSQL answers a
\* statement once the row lock it needs is free or the deadlock is detected
FairLive ==
  \A a \in Procs :
     /\ WF_vars(SaleStep(a))
     /\ WF_vars(CancelStep(a))
     /\ WF_vars(CancelDeadlock(a))

SpecLive == Init /\ [][NextLive]_vars /\ FairLive

\* ---------------------------- createStockMovement and adjustStock, by steps
\* neither handler opens a transaction: each awaited statement commits alone
\* the createStockMovement request arrives
MoveStart(a, input) ==
  /\ procs[a].pc = "idle"
  /\ Set(a, [Idle EXCEPT !.op = "createStockMovement", !.pc = "mread",
                         !.move = input])
  /\ UNCHANGED <<dbvars, seqvars, last, rowlock>>

\* the adjustStock request arrives
AdjustStart(a, productId, newQuantity, userId) ==
  /\ procs[a].pc = "idle"
  /\ Set(a, [Idle EXCEPT !.op = "adjustStock", !.pc = "aread",
                         !.target = newQuantity,
                         !.move = [NoMove EXCEPT !.product_id = productId,
                                                 !.created_by = userId]])
  /\ UNCHANGED <<dbvars, seqvars, last, rowlock>>

\* adjustStock: "First get the current product stock", the adjustment
\* quantity from the stock it has read, then the call of createStockMovement
AdjustRead(a) ==
  LET r == procs[a] IN
  /\ r.op = "adjustStock" /\ r.pc = "aread"
  /\ IF r.move.product_id \notin Products
     THEN Finish(a, "ProductNotFound", r.move.product_id)
     ELSE /\ Set(a, [r EXCEPT !.pc = "mread",
                              !.move = AdjustmentInput(r.move.product_id, r.target,
                                                       r.move.created_by)])
          /\ UNCHANGED last
  /\ UNCHANGED <<dbvars, seqvars, rowlock>>

\* createStockMovement: "First verify the product exists", keeping the row
MoveRead(a) ==
  LET r == procs[a] IN
  /\ r.pc = "mread"
  /\ IF r.move.product_id \notin Products
     THEN Finish(a, "ProductNotFound", r.move.product_id)
     ELSE /\ Set(a, [r EXCEPT !.pc = "minsert", !.read = stock[r.move.product_id]])
          /\ UNCHANGED last
  /\ UNCHANGED <<dbvars, seqvars, rowlock>>

\* "Insert the stock movement record"
MoveInsert(a) ==
  LET r == procs[a] IN
  /\ r.pc = "minsert"
  /\ ledger' = Append(ledger, MovementRow(r.move))
  /\ Set(a, [r EXCEPT !.pc = "mwrite"])
  /\ UNCHANGED <<stock, active, sales, saleItems, purchases, purchaseItems,
                 seqvars, last, rowlock>>

\* "Update the product's stock quantity", computed from the row read earlier
MoveWrite(a) ==
  LET r == procs[a]
      p == r.move.product_id
  IN /\ r.pc = "mwrite"
     /\ rowlock[p] = NoProc
     /\ stock' = [stock EXCEPT ![p] =
                    NewStockQuantity(r.read, r.move.movement_type, r.move.quantity)]
     /\ hist' = Touch({p})
     /\ Finish(a, "none", p)
     /\ UNCHANGED <<active, sales, saleItems, ledger, purchases, purchaseItems,
                    saleSeq, purchaseSeq, now, manual, updates, rowlock>>

MoveStep(a) ==
  \/ AdjustRead(a)
  \/ MoveRead(a)
  \/ MoveInsert(a)
  \/ MoveWrite(a)

\* two stock requests in flight, quoting no reference
StartMovement ==
  \E a \in Procs, input \in MovementInputs :
     input.ref.type = NullText /\ MoveStart(a, input)

StartAdjust ==
  \E a \in Procs, productId \in ProductIds, newQuantity \in (-1)..MaxQty,
     userId \in Users :
       AdjustStart(a, productId, newQuantity, userId)

RunMovement == \E a \in Procs : MoveStep(a)

NextConcStock == StartMovement \/ StartAdjust \/ RunMovement

SpecConcStock == InitOne /\ [][NextConcStock]_vars

\* =================================================================== claims
\* C1: in every reachable state every product's stock_quantity is >= 0.
\* createStockMovement floors at 0, createSale does not: a sale whose lines
\* name one product twice passes the per-line test and takes the stock below 0.
C1_StockNeverNegative == \A p \in Products : stock[p] >= 0

\* a request has got past the verification loop of createSale
PassedCheck(a) ==
  /\ procs[a].op = "createSale"
  /\ \/ procs[a].pc \in {"insert", "line", "commit"}
     \/ procs[a].pc = "done" /\ procs[a].err = "none"

\* two requests whose demand for product p the initial stock covers one at a
\* time but not together
Contend(a, b, p) ==
  /\ a # b
  /\ procs[a].op = "createSale" /\ procs[b].op = "createSale"
  /\ QtyFor(procs[a].items, p) \in 1..InitStock
  /\ QtyFor(procs[b].items, p) \in 1..InitStock
  /\ QtyFor(procs[a].items, p) + QtyFor(procs[b].items, p) > InitStock

\* C2: two concurrent createSale calls on a product whose stock suffices for
\* either but not for both never both pass the stock test, at most one
\* commits, and the stock of the product never goes below zero.
C2_NoDoublePass ==
  \A a \in Procs, b \in Procs, p \in Products :
     Contend(a, b, p) =>
        /\ ~(PassedCheck(a) /\ PassedCheck(b))
        /\ ~(procs[a].pc = "done" /\ procs[a].err = "none" /\
             procs[b].pc = "done" /\ procs[b].err = "none")
        /\ stock[p] >= 0

\* C3: a createSale call that breaks any precondition (cashier, product
\* missing or inactive, stock of a line, payment) throws and leaves every
\* table and every product's stock_quantity as it was.
C3_FailedSalePersistsNothing ==
  [][(last'.op = "createSale" /\ last'.broken # {}) =>
        /\ last'.err # "none"
        /\ UNCHANGED dbvars
        /\ saleSeq' = saleSeq]_vars

\* a createSale call short of stock has just been turned down, after an
\* earlier sale went through
C3_Witness ==
  /\ last.op = "createSale"
  /\ "stock" \in last.broken
  /\ last.err = "InsufficientStock"
  /\ Len(sales) = 1 /\ Len(saleItems) >= 1

\* the ledger rows that quote sale saleId as their reference
SaleRefRows(saleId) ==
  {k \in 1..Len(ledger) : /\ ledger[k].reference_type = "sale"
                          /\ ledger[k].reference_id = saleId}

\* cancelSale has just returned for sale number i, and no other call wrote
\* the stock of the sale's products between the sale and its cancellation
JustCancelled(i) ==
  /\ last.op = "cancelSale" /\ last.err = "none" /\ last.id = sales[i].id
  /\ hist[i].touched \cap ItemProducts(ItemsOfSale(sales[i].id)) = {}

\* the stock of the products of sale number i is what it was before the sale
StockRestored(i) ==
  \A p \in ItemProducts(ItemsOfSale(sales[i].id)) : stock[p] = hist[i].pre[p]

\* the rows createSale and cancelSale appended for sale number i: one 'out'
\* row per line at the sale, one 'in' row per line at the cancellation, each
\* of the line's product and quantity
OwnRowsPaired(i) ==
  LET items == ItemsOfSale(sales[i].id) IN
  \A j \in 1..Len(items) :
     /\ ledger[hist[i].at + j] =
          [product_id |-> items[j].product_id, movement_type |-> "out",
           quantity |-> -items[j].quantity, reference_type |-> "sale",
           reference_id |-> sales[i].id, created_by |-> sales[i].cashier_id]
     /\ ledger[hist[i].cat + j] =
          [product_id |-> items[j].product_id, movement_type |-> "in",
           quantity |-> items[j].quantity, reference_type |-> "sale",
           reference_id |-> sales[i].id, created_by |-> sales[i].cancelled_by]

\* C4 as stated: after createSale then cancelSale with no other operation on
\* the sale's products in between, the stock is back at its value before the
\* sale and the ledger rows referencing the sale are exactly one 'out' and one
\* 'in' row per line (two rows for a one-line sale).
C4_ExactlyTwoRowsPerLine ==
  \A i \in 1..Len(sales) :
     JustCancelled(i) =>
        LET n == Len(ItemsOfSale(sales[i].id))
            rows == SaleRefRows(sales[i].id)
        IN /\ StockRestored(i)
           /\ Cardinality({k \in rows : ledger[k].movement_type = "out"}) = n
           /\ Cardinality({k \in rows : ledger[k].movement_type = "in"}) = n
           /\ Cardinality(rows) = 2 * n

\* C4: after createSale then cancelSale with no other operation on the sale's
\* products in between, the stock is back at its value before the sale, and
\* the two calls have appended one 'out' and one 'in' row of equal magnitude
\* per line referencing the sale; these are the only rows referencing it
\* unless a createStockMovement call quoted that sale as its reference.
C4_SaleThenCancelReconciles ==
  \A i \in 1..Len(sales) :
     JustCancelled(i) =>
        LET n == Len(ItemsOfSale(sales[i].id)) IN
        /\ StockRestored(i)
        /\ OwnRowsPaired(i)
        /\ (\A k \in 1..Len(manual) :
               ~(manual[k].input.ref.type = "sale" /\
                 manual[k].input.ref.id = sales[i].id))
           => SaleRefRows(sales[i].id) =
                 (hist[i].at + 1)..(hist[i].at + n) \cup
                 (hist[i].cat + 1)..(hist[i].cat + n)

\* a two-line sale has just been cancelled, a movement on another product
\* having been recorded in between
C4_Witness ==
  /\ Len(sales) = 1 /\ JustCancelled(1)
  /\ Len(ItemsOfSale(sales[1].id)) = 2
  /\ Len(manual) = 1 /\ manual[1].input.ref.type = NullText
  /\ Cardinality(SaleRefRows(sales[1].id)) = 4

\* C5 as stated: cancelSale on a sale that is not 'completed' throws the
\* invalid-state error and changes no stock, ledger row or sale row.
C5_AlwaysInvalidState ==
  [][(last'.op = "cancelSale" /\ "status" \in last'.broken) =>
        /\ last'.err = "NotCompleted"
        /\ UNCHANGED dbvars]_vars

\* C5: cancelSale on a sale that is not 'completed' throws and changes no
\* stock, ledger row or sale row; the error is the invalid-state error when
\* cancelled_by names a user, and the canceller-not-found error, which is
\* tested first, when it does not.
C5_CancelNotCompletedFails ==
  [][(last'.op = "cancelSale" /\ "status" \in last'.broken) =>
        /\ last'.err = IF "canceller" \in last'.broken
                       THEN "CancellerNotFound" ELSE "NotCompleted"
        /\ UNCHANGED dbvars]_vars

\* a second cancellation of a cancelled sale has just been turned down
C5_Witness ==
  /\ last.op = "cancelSale" /\ last.err = "NotCompleted"
  /\ last.broken = {"status"}
  /\ Len(sales) = 1 /\ sales[1].status = "cancelled"
  /\ Len(ledger) = 2 * Len(saleItems)

\* C6: every sale is created 'completed'; the only change of status is
\* completed -> cancelled, and a cancelled sale keeps that status.
C6_StatusOneWay ==
  [][/\ Len(sales') >= Len(sales)
     /\ \A i \in 1..Len(sales') :
          IF i <= Len(sales)
          THEN /\ sales'[i].id = sales[i].id
               /\ \/ sales'[i].status = sales[i].status
                  \/ sales[i].status = "completed" /\ sales'[i].status = "cancelled"
          ELSE sales'[i].status = "completed"]_vars

\* a sale has been cancelled and a product edited after that
C6_Witness ==
  /\ Len(sales) = 1 /\ sales[1].status = "cancelled"
  /\ last.op = "updateProduct" /\ last.err = "none"

\* C7: every persisted sale has total_amount = subtotal - discount_amount +
\* tax_amount, its subtotal being the sum of quantity * unit_price over its
\* lines (integer cents).
C7_TotalFormula ==
  \A i \in 1..Len(sales) :
     LET items == ItemsOfSale(sales[i].id) IN
     /\ sales[i].total_amount =
           sales[i].subtotal - sales[i].discount_amount + sales[i].tax_amount
     /\ sales[i].subtotal =
           SumSeq([j \in 1..Len(items) |-> items[j].quantity * items[j].unit_price])

\* a two-line sale with a discount and no tax is on record
C7_Witness ==
  /\ Len(sales) = 1 /\ Len(saleItems) = 2
  /\ sales[1].discount_amount = 1 /\ sales[1].tax_amount = 0
  /\ sales[1].subtotal = 2 * Price /\ sales[1].total_amount = 2 * Price - 1

\* C8: every persisted sale has amount_paid >= total_amount and change_amount
\* = amount_paid - total_amount, and a createSale call whose amount_paid is
\* below the total is turned down with the insufficient-payment error.
C8_PaymentCovers ==
  /\ \A i \in 1..Len(sales) :
        /\ sales[i].amount_paid >= sales[i].total_amount
        /\ sales[i].change_amount = sales[i].amount_paid - sales[i].total_amount
        /\ sales[i].change_amount >= 0
  /\ (last.op = "createSale" /\ "payment" \in last.broken)
        => last.err = "InsufficientPayment"

\* a sale that gave change is on record and an underpaid call, which also
\* named a cashier that does not exist, has just been turned down
C8_Witness ==
  /\ Len(sales) = 1 /\ sales[1].change_amount > 0
  /\ last.op = "createSale" /\ last.err = "InsufficientPayment"
  /\ {"payment", "cashier"} \subseteq last.broken

\* C9: createPurchase with a supplier or a line product that does not exist
\* throws a not-found error and leaves every table and every product's
\* stock_quantity as it was.
C9_PurchaseNotFoundPersistsNothing ==
  [][(last'.op = "createPurchase" /\ last'.broken # {}) =>
        /\ last'.err = IF "supplier" \in last'.broken
                       THEN "SupplierNotFound" ELSE "ProductNotFound"
        /\ UNCHANGED dbvars
        /\ purchaseSeq' = purchaseSeq]_vars

\* a purchase naming an unknown product has just been turned down, after an
\* earlier purchase was received
C9_Witness ==
  /\ last.op = "createPurchase" /\ last.err = "ProductNotFound"
  /\ last.broken = {"product"}
  /\ Len(purchases) = 1 /\ Len(ledger) = Len(purchaseItems)

\* C10: no state shows the header of a purchase without its purchase items,
\* or without the 'in' ledger row of every one of its lines.
C10_PurchaseAtomic ==
  \A i \in 1..Len(purchases) :
     LET items == SelectSeq(purchaseItems,
                            LAMBDA r : r.purchase_id = purchases[i].id)
         rows == {k \in 1..Len(ledger) :
                    /\ ledger[k].reference_type = "purchase"
                    /\ ledger[k].reference_id = purchases[i].id
                    /\ ledger[k].movement_type = "in"}
     IN /\ Len(items) >= 1
        /\ Cardinality(rows) = Len(items)

RECURSIVE LedgerStock(_, _)
\* the stock of product p that the first k ledger rows account for, each row
\* applied as createStockMovement applies it
LedgerStock(p, k) ==
  IF k = 0 THEN InitStock
  ELSE IF ledger[k].product_id = p
       THEN NewStockQuantity(LedgerStock(p, k - 1), ledger[k].movement_type,
                             ledger[k].quantity)
       ELSE LedgerStock(p, k - 1)

\* C11: with a single createStockMovement or adjustStock request at work, no
\* state shows a movement's ledger row without the stock_quantity update that
\* belongs to it, or the update without the row.
C11_MovementAtomic ==
  (\E a \in Procs : procs[a].pc = "idle") =>
     \A p \in Products : stock[p] = LedgerStock(p, Len(ledger))

\* the stock that request record r leaves when it runs alone on stock s
SerialStock(r, s) ==
  IF r.op = "adjustStock"
  THEN NewStockQuantity(s, "adjustment", r.target - s)
  ELSE NewStockQuantity(s, r.move.movement_type, r.move.quantity)

\* C12: when two stock requests on the same product have both returned, the
\* product's stock_quantity is what running them one after the other, in one
\* of the two orders, would have left.
C12_Serializes ==
  \A a \in Procs, b \in Procs :
     (/\ a # b
      /\ procs[a].pc = "done" /\ procs[a].err = "none"
      /\ procs[b].pc = "done" /\ procs[b].err = "none"
      /\ procs[a].move.product_id = procs[b].move.product_id)
     => stock[procs[a].move.product_id] \in
           {SerialStock(procs[b], SerialStock(procs[a], InitStock)),
            SerialStock(procs[a], SerialStock(procs[b], InitStock))}

\* the createStockMovement or adjustStock call that succeeded last
LastManual == manual[Len(manual)]

\* C13: createStockMovement on an existing product with stock s and quantity
\* q leaves max(0, s + q) for 'in', max(0, s - q) for 'out', max(0, s + q) for
\* 'adjustment', touches no other product, and appends exactly one ledger row
\* carrying q itself, the type, the reference and the actor it was given.
C13_MovementSemantics ==
  [][(last'.op = "createStockMovement" /\ last'.err = "none") =>
        LET m == manual'[Len(manual')].input
            s == stock[m.product_id]
            q == m.quantity
            raw == IF m.movement_type = "out" THEN s - q ELSE s + q
        IN /\ Len(manual') = Len(manual) + 1
           /\ stock' = [stock EXCEPT ![m.product_id] = IF raw < 0 THEN 0 ELSE raw]
           /\ ledger' = Append(ledger,
                 [product_id |-> m.product_id, movement_type |-> m.movement_type,
                  quantity |-> q, reference_type |-> m.ref.type,
                  reference_id |-> m.ref.id, created_by |-> m.created_by])]_vars

\* an 'out' movement of 2 has just been recorded against a smaller stock,
\* which it left at 0
C13_Witness ==
  /\ last.op = "createStockMovement" /\ last.err = "none"
  /\ Len(manual) >= 1
  /\ LastManual.input.movement_type = "out" /\ LastManual.input.quantity = 2
  /\ stock[LastManual.input.product_id] = 0
  /\ ledger[Len(ledger)].quantity = 2

\* the change of stock a ledger row stands for: +|quantity| for 'in',
\* -|quantity| for 'out', quantity as it is for 'adjustment'
SignedDelta(row) ==
  LET mag == IF row.quantity < 0 THEN -row.quantity ELSE row.quantity
  IN IF row.movement_type = "in" THEN mag
     ELSE IF row.movement_type = "out" THEN -mag
     ELSE row.quantity

\* C14: every product's stock_quantity is its initial stock plus the sum of
\* the signed deltas of its ledger rows. Stated over createSale, cancelSale
\* and updateProduct, none of which floors the stock at 0.
C14_LedgerReconciles ==
  \A p \in Products :
     stock[p] = InitStock +
        SumSeq([k \in 1..Len(ledger) |->
                  IF ledger[k].product_id = p THEN SignedDelta(ledger[k]) ELSE 0])

\* C15: every step that changes the stock_quantity of a product appends a
\* ledger row for that product in the same step.
C15_StockInLockstep ==
  [][\A p \in Products :
        stock'[p] # stock[p] =>
           \E k \in (Len(ledger) + 1)..Len(ledger') : ledger'[k].product_id = p]_vars

\* C16: a ledger row, once written, is never changed or removed: every step
\* leaves the rows that were there in place and at most adds rows after them.
C16_LedgerAppendOnly ==
  [][/\ Len(ledger') >= Len(ledger)
     /\ \A k \in 1..Len(ledger) : ledger'[k] = ledger[k]]_vars

\* a sale was cancelled: its 'out' row is still where the sale put it, the
\* 'in' row of the cancellation came after it, and a purchase and a
\* movement have written rows as well
C16_Witness ==
  /\ Len(sales) = 1 /\ sales[1].status = "cancelled"
  /\ ledger[hist[1].at + 1].movement_type = "out"
  /\ ledger[hist[1].cat + 1].movement_type = "in"
  /\ hist[1].cat > hist[1].at
  /\ Len(purchases) = 1 /\ Len(manual) = 1
  /\ Len(ledger) >= 4

\* C17: adjustStock with newQuantity >= 0 on an existing product leaves the
\* product's stock_quantity at newQuantity, touches no other product, and
\* appends one 'adjustment' row with quantity newQuantity minus the stock
\* before, reference_type 'adjustment' and reference_id null.
C17_AdjustReachesTarget ==
  [][(last'.op = "adjustStock" /\ last'.err = "none" /\
      manual'[Len(manual')].target >= 0) =>
        LET m == manual'[Len(manual')]
            p == m.input.product_id
        IN /\ Len(manual') = Len(manual) + 1
           /\ p = last'.id
           /\ stock' = [stock EXCEPT ![p] = m.target]
           /\ ledger' = Append(ledger,
                 [product_id |-> p, movement_type |-> "adjustment",
                  quantity |-> m.target - stock[p],
                  reference_type |-> "adjustment", reference_id |-> Null,
                  created_by |-> m.input.created_by])]_vars

\* adjustStock to 2 has just raised a stock of 1, recording +1
C17_Witness ==
  /\ last.op = "adjustStock" /\ last.err = "none"
  /\ Len(manual) >= 1 /\ LastManual.target = 2
  /\ stock[last.id] = 2
  /\ ledger[Len(ledger)].quantity = 1

\* C18: adjustStock on an existing product never throws; with a negative
\* newQuantity it leaves stock_quantity at 0 and appends an 'adjustment' row
\* whose quantity is newQuantity minus the stock before, which is not the
\* change the stock has undergone.
C18_NegativeTargetFloors ==
  [][last'.op = "adjustStock" =>
        /\ last'.broken = {} => last'.err = "none"
        /\ (last'.err = "none" /\ manual'[Len(manual')].target < 0) =>
              LET m == manual'[Len(manual')]
                  p == m.input.product_id
                  row == ledger'[Len(ledger')]
              IN /\ Len(ledger') = Len(ledger) + 1
                 /\ stock'[p] = 0
                 /\ row.product_id = p /\ row.movement_type = "adjustment"
                 /\ row.quantity = m.target - stock[p]
                 /\ row.quantity # stock'[p] - stock[p]]_vars

\* adjustStock to -1 has just emptied a stock, recording -2
C18_Witness ==
  /\ last.op = "adjustStock" /\ last.err = "none"
  /\ Len(manual) >= 1 /\ LastManual.target = -1
  /\ stock[last.id] = 0
  /\ ledger[Len(ledger)].quantity = -2

\* C19: createStockMovement and adjustStock on a product_id without a row
\* throw the product-not-found error and leave the ledger and every stock
\* as they were.
C19_MovementNotFound ==
  [][(last'.op \in {"createStockMovement", "adjustStock"} /\
      "product" \in last'.broken) =>
        /\ last'.err = "ProductNotFound"
        /\ UNCHANGED dbvars]_vars

\* adjustStock on an unknown product has just been turned down, with a sale
\* on record
C19_Witness ==
  /\ last.op = "adjustStock" /\ last.err = "ProductNotFound"
  /\ last.id = NoProduct
  /\ Len(sales) = 1 /\ Len(ledger) >= 1

\* C20 as stated: createSale reports the first failing precondition in the
\* order cashier, then per line product existence, product active, stock,
\* and last payment.
C20_CashierLinesPayment ==
  (last.op = "createSale") =>
     last.err = IF "cashier" \in last.broken THEN "CashierNotFound"
                ELSE IF "product" \in last.first THEN "ProductNotFound"
                ELSE IF "inactive" \in last.first THEN "ProductInactive"
                ELSE IF "stock" \in last.first THEN "InsufficientStock"
                ELSE IF "payment" \in last.broken THEN "InsufficientPayment"
                ELSE "none"

\* C20: createSale reports the first failing precondition in the order
\* payment, cashier, then per line in the order submitted product existence,
\* stock, product active.
C20_PaymentCashierLines ==
  (last.op = "createSale") =>
     last.err = IF "payment" \in last.broken THEN "InsufficientPayment"
                ELSE IF "cashier" \in last.broken THEN "CashierNotFound"
                ELSE IF "product" \in last.first THEN "ProductNotFound"
                ELSE IF "stock" \in last.first THEN "InsufficientStock"
                ELSE IF "inactive" \in last.first THEN "ProductInactive"
                ELSE "none"

\* a paid-up sale by a known cashier of a line whose product is inactive and
\* short of stock has just been turned down for the stock
C20_Witness ==
  /\ last.op = "createSale" /\ last.err = "InsufficientStock"
  /\ last.broken = {"stock", "inactive"}
  /\ last.first = {"stock", "inactive"}

\* C21: a createSale call that returns has added one sale, 'completed', one
\* sale item per submitted line with total_price = quantity * unit_price, has
\* taken each line's quantity off its product's stock_quantity, and has
\* appended per line one 'out' ledger row with quantity = -quantity,
\* reference_type 'sale' and reference_id the id of the new sale.
C21_SaleEffects ==
  [][(last'.op = "createSale" /\ last'.err = "none") =>
        LET items == last'.lines
            n == Len(items)
            id == last'.id
        IN /\ n >= 1
           /\ Len(sales') = Len(sales) + 1
           /\ \A i \in 1..Len(sales) : sales'[i] = sales[i] /\ sales[i].id # id
           /\ sales'[Len(sales')].id = id
           /\ sales'[Len(sales')].status = "completed"
           /\ Len(saleItems') = Len(saleItems) + n
           /\ \A j \in 1..Len(saleItems) : saleItems'[j] = saleItems[j]
           /\ \A j \in 1..n :
                 LET r == saleItems'[Len(saleItems) + j] IN
                 /\ r.sale_id = id
                 /\ r.product_id = items[j].product_id
                 /\ r.quantity = items[j].quantity
                 /\ r.unit_price = items[j].unit_price
                 /\ r.total_price = items[j].quantity * items[j].unit_price
           /\ \A p \in Products :
                 stock'[p] = stock[p] -
                    SumSeq([j \in 1..n |-> IF items[j].product_id = p
                                           THEN items[j].quantity ELSE 0])
           /\ Len(ledger') = Len(ledger) + n
           /\ \A k \in 1..Len(ledger) : ledger'[k] = ledger[k]
           /\ \A j \in 1..n :
                 LET r == ledger'[Len(ledger) + j] IN
                 /\ r.product_id = items[j].product_id
                 /\ r.movement_type = "out"
                 /\ r.quantity = -items[j].quantity
                 /\ r.reference_type = "sale"
                 /\ r.reference_id = id]_vars

\* a sale of two lines on two products has just gone through, after a
\* movement had been recorded
C21_Witness ==
  /\ last.op = "createSale" /\ last.err = "none"
  /\ Len(last.lines) = 2
  /\ last.lines[1].product_id # last.lines[2].product_id
  /\ Len(manual) = 1 /\ Len(ledger) = 3
  /\ ledger[3].quantity = -last.lines[2].quantity

\* C22: a createPurchase call that returns has added one purchase,
\* 'completed', with total_amount the sum of quantity * unit_cost over the
\* lines, one purchase item per line, has added each line's quantity to its
\* product's stock_quantity, and has appended per line one 'in' ledger row
\* with quantity = +quantity, reference_type 'purchase' and reference_id the
\* id of the new purchase.
C22_PurchaseEffects ==
  [][(last'.op = "createPurchase" /\ last'.err = "none") =>
        LET items == last'.lines
            n == Len(items)
            id == last'.id
        IN /\ n >= 1
           /\ Len(purchases') = Len(purchases) + 1
           /\ \A i \in 1..Len(purchases) :
                 purchases'[i] = purchases[i] /\ purchases[i].id # id
           /\ purchases'[Len(purchases')].id = id
           /\ purchases'[Len(purchases')].status = "completed"
           /\ purchases'[Len(purchases')].total_amount =
                 SumSeq([j \in 1..n |-> items[j].quantity * items[j].unit_cost])
           /\ Len(purchaseItems') = Len(purchaseItems) + n
           /\ \A j \in 1..Len(purchaseItems) : purchaseItems'[j] = purchaseItems[j]
           /\ \A j \in 1..n :
                 LET r == purchaseItems'[Len(purchaseItems) + j] IN
                 /\ r.purchase_id = id
                 /\ r.product_id = items[j].product_id
                 /\ r.quantity = items[j].quantity
                 /\ r.unit_cost = items[j].unit_cost
           /\ \A p \in Products :
                 stock'[p] = stock[p] +
                    SumSeq([j \in 1..n |-> IF items[j].product_id = p
                                           THEN items[j].quantity ELSE 0])
           /\ Len(ledger') = Len(ledger) + n
           /\ \A k \in 1..Len(ledger) : ledger'[k] = ledger[k]
           /\ \A j \in 1..n :
                 LET r == ledger'[Len(ledger) + j] IN
                 /\ r.product_id = items[j].product_id
                 /\ r.movement_type = "in"
                 /\ r.quantity = items[j].quantity
                 /\ r.reference_type = "purchase"
                 /\ r.reference_id = id]_vars

\* a purchase of two lines on the same product has just been received,
\* after the product's stock had been edited to 0
C22_Witness ==
  /\ last.op = "createPurchase" /\ last.err = "none"
  /\ Len(last.lines) = 2
  /\ last.lines[1].product_id = last.lines[2].product_id
  /\ updates = 1
  /\ stock[last.lines[1].product_id] =
        last.lines[1].quantity + last.lines[2].quantity
  /\ purchases[1].total_amount = Price * stock[last.lines[1].product_id]

\* C23 as stated: a createSale call with a line whose product is inactive
\* fails with the product-inactive error and leaves sales, sale items, ledger
\* and stock as they were.
C23_AlwaysInactiveError ==
  [][(last'.op = "createSale" /\ "inactive" \in last'.broken) =>
        /\ last'.err = "ProductInactive"
        /\ UNCHANGED dbvars]_vars

\* C23: a createSale call with a line whose product is inactive fails and
\* leaves sales, sale items, ledger and stock as they were, so every call
\* that returns had only active products on its lines. The error is the
\* product-inactive error exactly when the payment suffices, the cashier
\* exists and the first line with anything wrong has an inactive product that
\* covers the line's quantity; otherwise it is the error of the check that
\* comes earlier.
C23_InactiveSaleFails ==
  [][last'.op = "createSale" =>
        /\ "inactive" \in last'.broken =>
              /\ last'.err # "none"
              /\ UNCHANGED dbvars
              /\ saleSeq' = saleSeq
              /\ last'.err = "ProductInactive" <=>
                    /\ "payment" \notin last'.broken
                    /\ "cashier" \notin last'.broken
                    /\ last'.first = {"inactive"}
        /\ last'.err = "none" =>
              \A j \in 1..Len(last'.lines) : active[last'.lines[j].product_id]]_vars

\* a paid-up sale of a line within stock has just been turned down because
\* its product had been deactivated after an earlier sale
C23_Witness ==
  /\ last.op = "createSale" /\ last.err = "ProductInactive"
  /\ last.broken = {"inactive"}
  /\ Len(sales) = 1 /\ updates = 1
  /\ \E p \in Products : ~active[p] /\ stock[p] >= 1

\* C24: cancelSale with a cancelled_by that names no user throws the
\* canceller-not-found error, and with a sale_id that names no sale the
\* sale-not-found error, the canceller being looked up first; either way no
\* sale row, stock_quantity or ledger row changes.
C24_CancelNotFound ==
  [][(last'.op = "cancelSale" /\ last'.broken \cap {"canceller", "sale"} # {}) =>
        /\ last'.err = IF "canceller" \in last'.broken
                       THEN "CancellerNotFound" ELSE "SaleNotFound"
        /\ UNCHANGED dbvars
        /\ saleSeq' = saleSeq]_vars

\* with a sale on record, a cancellation naming neither a user nor a sale
\* has just been turned down for the canceller
C24_Witness ==
  /\ last.op = "cancelSale" /\ last.err = "CancellerNotFound"
  /\ last.broken = {"canceller", "sale"}
  /\ Len(sales) = 1 /\ sales[1].status = "completed"
  /\ ~SaleExists(last.id)

\* the 'in' ledger rows that quote sale saleId as their reference
RestoreRows(saleId) ==
  {k \in SaleRefRows(saleId) : ledger[k].movement_type = "in"}

\* what the sales that are still 'completed' have taken off product p
SoldOpen(p) ==
  SumSeq([i \in 1..Len(sales) |->
            IF sales[i].status = "completed"
            THEN QtyFor(ItemsOfSale(sales[i].id), p) ELSE 0])

\* C25: of two concurrent cancelSale calls for the same completed sale at
\* most one returns, the quantity of each line is added back to the stock
\* once, and one reverse 'in' ledger row per line is appended.
C25_RestoredOnce ==
  /\ \A a \in Procs, b \in Procs :
        (a # b /\ procs[a].op = "cancelSale" /\ procs[b].op = "cancelSale"
               /\ procs[a].id = procs[b].id)
        => ~(/\ procs[a].pc = "done" /\ procs[a].err = "none"
             /\ procs[b].pc = "done" /\ procs[b].err = "none")
  /\ \A i \in 1..Len(sales) :
        Cardinality(RestoreRows(sales[i].id)) <= Len(ItemsOfSale(sales[i].id))
  /\ \A p \in Products : stock[p] = InitStock - SoldOpen(p)

\* C26: createSale turns down every call whose lines together ask for more of
\* a product than its stock_quantity, also when the product is on several
\* lines each of which is within stock: a call that returns has asked, over
\* all its lines, for no more of any product than was in stock.
C26_TotalQuantityChecked ==
  [][(last'.op = "createSale" /\ last'.err = "none") =>
        \A p \in Products : QtyFor(last'.lines, p) <= stock[p]]_vars

\* a cancelSale call that has just returned cancelled sale row number i
CancelledNow(i) ==
  /\ last'.op = "cancelSale" /\ last'.err = "none"
  /\ last'.id = sales'[i].id

\* C27: cancelled_by, cancelled_at and cancellation_reason of a sale are all
\* null while its status is 'completed' and all set once it is 'cancelled';
\* the cancelSale call that returns stores the actor and the reason it was
\* given, and no later step changes them.
C27_CancelMetadata ==
  [][\A i \in 1..Len(sales') :
        LET s == sales'[i] IN
        /\ s.status = "completed" =>
              /\ s.cancelled_by = Null
              /\ s.cancelled_at = NullText
              /\ s.cancellation_reason = NullText
        /\ s.status = "cancelled" =>
              /\ s.cancelled_by # Null
              /\ s.cancelled_at # NullText
              /\ s.cancellation_reason # NullText
        /\ CancelledNow(i) =>
              /\ s.status = "cancelled"
              /\ s.cancelled_by = last'.by
              /\ s.cancellation_reason = last'.reason
        /\ (i <= Len(sales) /\ ~CancelledNow(i)) =>
              /\ s.cancelled_by = sales[i].cancelled_by
              /\ s.cancelled_at = sales[i].cancelled_at
              /\ s.cancellation_reason = sales[i].cancellation_reason]_vars

\* a sale has been cancelled with the empty string for a reason, and a
\* second cancellation of it has just been turned down
C27_Witness ==
  /\ Len(sales) = 1 /\ sales[1].status = "cancelled"
  /\ sales[1].cancellation_reason = "" /\ sales[1].cancelled_by = 1
  /\ last.op = "cancelSale" /\ last.err = "NotCompleted"

\* the columns of a sales row that cancelSale is to leave alone
KeptColumns ==
  {"id", "transaction_number", "cashier_id", "subtotal", "discount_amount",
   "tax_amount", "total_amount", "amount_paid", "change_amount"}

\* C28: a cancelSale call that returns has changed, of the sale, only
\* status, cancelled_by, cancelled_at and cancellation_reason: its money
\* columns, transaction_number and cashier_id are as before, so are all of
\* its sale items, and so is every other sale.
C28_CancelFrame ==
  [][(last'.op = "cancelSale" /\ last'.err = "none") =>
        /\ Len(sales') = Len(sales)
        /\ \A i \in 1..Len(sales) :
              IF sales[i].id = last'.id
              THEN \A c \in KeptColumns : sales'[i][c] = sales[i][c]
              ELSE sales'[i] = sales[i]
        /\ saleItems' = saleItems]_vars

\* a two-line sale that carried a discount and was paid to the cent has
\* just been cancelled
C28_Witness ==
  /\ last.op = "cancelSale" /\ last.err = "none"
  /\ Len(sales) = 1 /\ sales[1].id = last.id
  /\ sales[1].status = "cancelled"
  /\ sales[1].discount_amount = 1 /\ sales[1].amount_paid = 3
  /\ sales[1].total_amount = 3 /\ sales[1].change_amount = 0
  /\ Len(ItemsOfSale(last.id)) = 2

\* C29: every purchase gets a purchase_number no other purchase has, so a
\* createPurchase request with a known supplier and known products returns,
\* whatever the clock read when it ran.
C29_FreshPurchaseNumber ==
  /\ \A i \in 1..Len(purchases), j \in 1..Len(purchases) :
        i # j => purchases[i].purchase_number # purchases[j].purchase_number
  /\ \A a \in Procs :
        (/\ procs[a].op = "createPurchase" /\ procs[a].pc = "done"
         /\ procs[a].party \in Suppliers
         /\ \A k \in 1..Len(procs[a].items) :
               procs[a].items[k].product_id \in Products)
        => procs[a].err = "none"

\* request a is between its arrival and its return
Running(a) == procs[a].pc \notin {"idle", "done"}

\* request a commits in this step
Commits(a) ==
  /\ procs[a].pc # "done" /\ procs'[a].pc = "done"
  /\ procs'[a].err = "none"

\* the writes of the request that commits, all in the one step
AllEffects(a) ==
  LET n == Len(procs[a].items) IN
  /\ n >= 1
  /\ Len(ledger') = Len(ledger) + n
  /\ \A p \in ItemProducts(procs[a].items) : stock'[p] # stock[p]
  /\ IF procs[a].op = "createSale"
     THEN /\ Len(sales') = Len(sales) + 1
          /\ Len(saleItems') = Len(saleItems) + n
     ELSE /\ sales'[SaleIdx(procs[a].id)].status = "cancelled"
          /\ sales'[SaleIdx(procs[a].id)].cancelled_by = procs[a].actor

\* C30: every createSale and cancelSale request that has arrived returns or
\* throws in the end, two createSale requests that name the same two products
\* in opposite order included; the step in which it commits shows all of its
\* writes and no other step of it, a throw included, shows any.
C30_SalesTerminate ==
  /\ [][\A a \in Procs :
          procs'[a] # procs[a] =>
             IF Commits(a) THEN AllEffects(a) ELSE UNCHANGED dbvars]_vars
  /\ \A a \in Procs : Running(a) ~> (procs[a].pc = "done")

\* two createSale requests named the same two products in opposite order;
\* one was failed by the deadlock detector, the other has committed
C30_Witness ==
  \E a \in Procs, b \in Procs :
     /\ procs[a].op = "createSale" /\ procs[b].op = "createSale"
     /\ procs[a].pc = "done" /\ procs[a].err = "DeadlockDetected"
     /\ procs[b].pc = "done" /\ procs[b].err = "none"
     /\ Len(procs[a].items) = 2 /\ Len(procs[b].items) = 2
     /\ procs[a].items[1].product_id = procs[b].items[2].product_id
     /\ procs[a].items[2].product_id = procs[b].items[1].product_id
     /\ procs[a].items[1].product_id # procs[a].items[2].product_id
     /\ Len(sales) = 1 /\ Len(ledger) = 2

====
